---- MODULE Spec2Model ----
(***************************************************************************)
(* Model of the poum units-of-measure registry (python/poum/__init__.py): *)
(* Unit, Quantity and UnitManager.                                         *)
(*                                                                         *)
(* Representation.  A Python str is a sequence of one-character strings,   *)
(* so that lower() and strip() are computed and not assumed.  A Unit       *)
(* object is a reference (a positive integer) into UnitDefs; a Quantity    *)
(* object is its position in quantities_, the order in which the set       *)
(* self.quantities_ iterates in the current state.  Decimal values are     *)
(* exact rationals <<numerator, denominator>>.  A call returns a record    *)
(* [exc, val]: exc = "" when it returns val, else the exception raised.    *)
(***************************************************************************)
EXTENDS Integers, Sequences, FiniteSets, TLC

VARIABLES
    quantities_,      \* UnitManager.quantities_, in iteration order
    unit_aliases_,    \* UnitManager.unit_aliases_ (dict: str -> str)
    lock,             \* UnitManager._lock: 0 when free, else the holder
    instance,         \* UnitManager._instance: None or the object built
    pc,               \* position of each thread inside get_instance
    ret,              \* what get_instance returned to each thread
    ctorRuns,         \* how many times UnitManager.__init__ has run
    unit,             \* a free-standing Unit: its four coefficients
    value,            \* the Decimal handed to to_base / convert
    step,             \* which conversion call has been made
    base_value,       \* result of unit.to_base(value)
    result            \* result of from_base(base_value) / convert(...)

registryVars == <<quantities_, unit_aliases_>>
singletonVars == <<lock, instance, pc, ret, ctorRuns>>
convertVars == <<unit, value, step, base_value, result>>
vars == <<quantities_, unit_aliases_, lock, instance, pc, ret, ctorRuns,
          unit, value, step, base_value, result>>

----------------------------------------------------------------------------
(* Bounds of the model.                                                    *)

MaxQuantities == 2
MaxMembers == 2
MaxAliases == 1
NumThreads == 3
MaxCoef == 2
MaxValue == 2

----------------------------------------------------------------------------
(* Python values.                                                          *)

\* None, where a Unit reference or a Quantity position is expected.
None == 0

\* None, where a str is expected: no string over the alphabet equals it.
NoneStr == <<"None">>

Ok(v) == [exc |-> "", val |-> v]
Raise(e, v) == [exc |-> e, val |-> v]

\* str.lower(), one character at a time.
LowerChar(ch) ==
    CASE ch = "S" -> "s"
      [] ch = "X" -> "x"
      [] ch = "E" -> "e"
      [] OTHER -> ch

Lower(s) == [i \in 1..Len(s) |-> LowerChar(s[i])]

RECURSIVE LStrip(_)
LStrip(s) == IF s # <<>> /\ Head(s) = " " THEN LStrip(Tail(s)) ELSE s

RECURSIVE RStrip(_)
RStrip(s) ==
    IF s # <<>> /\ s[Len(s)] = " " THEN RStrip(SubSeq(s, 1, Len(s) - 1)) ELSE s

\* str.strip()
Strip(s) == LStrip(RStrip(s))

----------------------------------------------------------------------------
(* Decimal arithmetic, exact.                                              *)

Abs(n) == IF n < 0 THEN -n ELSE n

RECURSIVE GCD(_, _)
GCD(m, n) == IF n = 0 THEN m ELSE GCD(n, m % n)

\* The rational n/d (d # 0) in lowest terms with a positive denominator.
Norm(n, d) ==
    LET g == GCD(Abs(n), Abs(d))
        sgn == IF d < 0 THEN -1 ELSE 1
    IN  <<(sgn * n) \div g, (sgn * d) \div g>>

Rat(n) == <<n, 1>>
RAdd(p, q) == Norm(p[1] * q[2] + q[1] * p[2], p[2] * q[2])
RSub(p, q) == Norm(p[1] * q[2] - q[1] * p[2], p[2] * q[2])
RMul(p, q) == Norm(p[1] * q[1], p[2] * q[2])

\* Decimal division: x/0 raises DivisionByZero, 0/0 raises InvalidOperation.
Divide(p, q) ==
    IF q[1] = 0
    THEN Raise(IF p[1] = 0 THEN "InvalidOperation" ELSE "DivisionByZero", Rat(0))
    ELSE Ok(Norm(p[1] * q[2], p[2] * q[1]))

----------------------------------------------------------------------------
(* Unit.                                                                   *)

\* Unit.to_base: ((a * value) + b) / ((c * value) + d)
to_base(u, v) == Divide(RAdd(RMul(u.a, v), u.b), RAdd(RMul(u.c, v), u.d))

from_base_wrong_sign(u, v) ==
    Divide(RSub(u.b, RMul(u.d, v)), RAdd(RMul(u.c, v), u.a))

\* Unit.from_base: (b - (d * value)) / ((c * value) - a)
from_base(u, v) == Divide(RSub(u.b, RMul(u.d, v)), RSub(RMul(u.c, v), u.a))

\* Unit.__eq__: name, symbol and the four coefficients; not display_symbol.
UnitEq(u, v) ==
    /\ u.name = v.name /\ u.symbol = v.symbol
    /\ u.a = v.a /\ u.b = v.b /\ u.c = v.c /\ u.d = v.d

MkUnit(name, symbol, a, b, c, d, display_symbol) ==
    [name |-> name, symbol |-> symbol, a |-> a, b |-> b, c |-> c, d |-> d,
     display_symbol |-> display_symbol]

----------------------------------------------------------------------------
(* The definitions the loaders read.  uom.json declares these units; its   *)
(* quantity records name their members by unit name.  A Unit reference is  *)
(* the position of its record in UnitDefs.  The files read are well        *)
(* formed: a quantity record has no description, every member name is the  *)
(* name of a declared unit, and an alias line holds one "=".  Quantity     *)
(* names and member lists are free, repeated names included.               *)

Euc == <<"E", "u", "c">>
Unitless == <<"u", "n", "i", "t", "l", "e", "s", "s">>

UnitDefs ==
    << MkUnit("second", <<"s">>, Rat(1), Rat(0), Rat(0), Rat(1), <<"s">>),
       MkUnit("siemens", <<"S">>, Rat(1), Rat(0), Rat(0), Rat(1), <<"S">>),
       MkUnit("euclid", Euc, Rat(1), Rat(0), Rat(0), Rat(1), Euc) >>

Units == 1..Len(UnitDefs)
UnitNames == {UnitDefs[u].name : u \in Units}
QNames == {"time", "dimensionless", "conductance"}

\* Strings handed to add_unit_alias / written in unit_aliases.txt.
AliasInputs == {<<"X">>, <<"s">>}
SymbolInputs == {<<"s">>, <<"S">>}

\* Strings handed to the lookups.
LookupList ==
    <<NoneStr, <<>>, <<" ">>, <<"s">>, <<"S">>, <<" ", "s", " ">>, <<"X">>,
      <<"x">>, Euc, <<"e", "u", "c">>>>
LookupInputs == {LookupList[i] : i \in 1..Len(LookupList)}

SeqsUpTo(S, n) == UNION {[1..k -> S] : k \in 0..n}

\* Every order in which a set holding the elements of s may iterate.
Orders(s) ==
    LET n == Len(s)
        P == {f \in [1..n -> 1..n] : \A i, j \in 1..n : i # j => f[i] # f[j]}
    IN  {[i \in 1..n |-> s[f[i]]] : f \in P}

RECURSIVE SumLen(_)
SumLen(qs) == IF qs = <<>> THEN 0 ELSE Len(Head(qs).units) + SumLen(Tail(qs))

\* Quantity.__init__(name, units): units or []
Quantity(name, units) == [name |-> name, units |-> units]

\* Quantity.add_unit
add_unit(q, u, is_base_unit) ==
    [q EXCEPT !.units = IF is_base_unit THEN <<u>> \o @ ELSE Append(@, u)]

\* UnitManager._find_unit_by_name over the units uom.json declares
find_unit_by_name(units, name) ==
    LET hits == {i \in 1..Len(units) : units[i].name = name}
    IN  IF hits = {} THEN None ELSE CHOOSE i \in hits : \A j \in hits : i <= j

RECURSIVE load_members(_, _)
load_members(q, names) ==
    IF names = <<>> THEN q
    ELSE load_members(add_unit(q, find_unit_by_name(UnitDefs, Head(names)), FALSE),
                      Tail(names))

\* UnitManager._load_from_json, the quantities loop: every record is added to
\* self.quantities_ (line 330) and then given its members.
RECURSIVE load_from_json(_)
load_from_json(records) ==
    IF records = <<>> THEN <<>>
    ELSE <<load_members(Quantity(Head(records).name, <<>>), Head(records).units)>>
         \o load_from_json(Tail(records))

\* The quantity records of a uom.json: names, and members by unit name, with
\* member j of the flattened member list belonging to record owner[j].
Document(names, flat, owner) ==
    [i \in 1..Len(names) |->
        [name |-> names[i],
         units |-> SubSeq(flat,
                          1 + Cardinality({j \in 1..Len(flat) : owner[j] < i}),
                          Cardinality({j \in 1..Len(flat) : owner[j] <= i}))]]

\* owner assigns the flattened members to the records in order.
InOrder(owner) ==
    \A i, j \in DOMAIN owner : i <= j => owner[i] <= owner[j]

\* UnitManager._load_unit_aliases: key.strip() -> value.strip(), line by line.
RECURSIVE load_unit_aliases(_, _)
load_unit_aliases(aliases, lines) ==
    IF lines = <<>> THEN aliases
    ELSE LET key == Strip(Head(lines).key)
         IN  load_unit_aliases(
                 [k \in DOMAIN aliases \cup {key} |->
                     IF k = key THEN Strip(Head(lines).value) ELSE aliases[k]],
                 Tail(lines))

AliasFiles == SeqsUpTo([key : AliasInputs, value : SymbolInputs], MaxAliases)

NoAliases == [k \in {} |-> <<>>]

----------------------------------------------------------------------------
(* UnitManager: lookups.                                                   *)

Min(S) == CHOOSE i \in S : \A j \in S : i <= j

RECURSIVE Flatten(_)
Flatten(qs) == IF qs = <<>> THEN <<>> ELSE Head(qs).units \o Flatten(Tail(qs))

\* for quantity in self.quantities_: for unit in quantity.units
Members == Flatten(quantities_)

\* x in units, for a Unit x: identity or Unit.__eq__
InUnits(x, units) ==
    \E i \in 1..Len(units) : units[i] = x \/ UnitEq(UnitDefs[x], UnitDefs[units[i]])

\* UnitManager.find_quantity
find_quantity(quantity_name) ==
    LET hits == {i \in 1..Len(quantities_) : quantities_[i].name = quantity_name}
    IN  IF hits = {} THEN None ELSE Min(hits)

find_unit_raw_second_pass(unit_symbol) ==
    LET given == IF unit_symbol = NoneStr \/ Strip(unit_symbol) = <<>>
                 THEN Unitless ELSE unit_symbol
        lower_case_symbol == Strip(Lower(given))
        actual == IF lower_case_symbol \in DOMAIN unit_aliases_
                  THEN unit_aliases_[lower_case_symbol] ELSE given
        members == Members
        exact == {i \in 1..Len(members) : UnitDefs[members[i]].symbol = actual}
        folded == {i \in 1..Len(members) :
                      Lower(UnitDefs[members[i]].symbol) = actual}
    IN  IF exact # {} THEN members[Min(exact)]
        ELSE IF folded # {} THEN members[Min(folded)]
        ELSE None

\* UnitManager.find_unit
find_unit(unit_symbol) ==
    LET given == IF unit_symbol = NoneStr \/ Strip(unit_symbol) = <<>>
                 THEN Unitless ELSE unit_symbol
        lower_case_symbol == Strip(Lower(given))
        actual == IF lower_case_symbol \in DOMAIN unit_aliases_
                  THEN unit_aliases_[lower_case_symbol] ELSE given
        members == Members
        exact == {i \in 1..Len(members) : UnitDefs[members[i]].symbol = actual}
        folded == {i \in 1..Len(members) :
                      Lower(UnitDefs[members[i]].symbol) = lower_case_symbol}
    IN  IF exact # {} THEN members[Min(exact)]
        ELSE IF folded # {} THEN members[Min(folded)]
        ELSE None

\* UnitManager.find_convertible_units; the value is the set the list is made of.
find_convertible_units(u) ==
    IF u = None THEN Raise("ValueError", {})
    ELSE LET units == UNION {{quantities_[i].units[k] :
                                 k \in 1..Len(quantities_[i].units)} :
                             i \in {j \in 1..Len(quantities_) :
                                       InUnits(u, quantities_[j].units)}}
         IN  Ok({x \in units : ~(x = u \/ UnitEq(UnitDefs[x], UnitDefs[u]))})

find_convertible_units_by_symbol_unguarded(unit_symbol) ==
    find_convertible_units(find_unit(unit_symbol))

\* UnitManager.find_convertible_units_by_symbol
find_convertible_units_by_symbol(unit_symbol) ==
    LET u == find_unit(unit_symbol)
    IN  IF u # None THEN find_convertible_units(u) ELSE Ok({})

\* UnitManager.find_quantities_by_unit.  With euclid_unit None, the test
\* "euclid_unit in quantity.units" calls Unit.__eq__(member, None), which reads
\* None.name_: AttributeError, at the first member of the first collected
\* quantity (a collected quantity has a member, the unit itself).
find_quantities_by_unit(u) ==
    IF u = None THEN Raise("ValueError", <<>>)
    ELSE LET collected == SelectSeq([i \in 1..Len(quantities_) |-> i],
                                    LAMBDA i : InUnits(u, quantities_[i].units))
             euclid_unit == find_unit(Euc)
         IN  IF collected = <<>> THEN Ok(<<>>)
             ELSE IF euclid_unit = None THEN Raise("AttributeError", <<>>)
             ELSE IF \E k \in 1..Len(collected) :
                         InUnits(euclid_unit, quantities_[collected[k]].units)
                  THEN Ok(Append(collected, find_quantity("dimensionless")))
                  ELSE Ok(collected)

\* UnitManager.find_quantities_by_symbol
find_quantities_by_symbol(unit_symbol) ==
    LET u == find_unit(unit_symbol)
    IN  IF u # None THEN find_quantities_by_unit(u) ELSE Ok(<<>>)

\* UnitManager.find_quantity_by_unit.  [q.name for q in quantities] reads
\* None.name when the list holds None: AttributeError.
find_quantity_by_unit(u) ==
    IF u = None THEN Raise("ValueError", None)
    ELSE LET found == find_quantities_by_unit(u)
             quantities == found.val
         IN  IF found.exc # "" THEN Raise(found.exc, None)
             ELSE IF Len(quantities) = 0 THEN Ok(None)
             ELSE IF Len(quantities) = 1 THEN Ok(quantities[1])
             ELSE IF \E k \in 1..Len(quantities) : quantities[k] = None
                  THEN Raise("AttributeError", None)
             ELSE IF \E k \in 1..Len(quantities) :
                         quantities_[quantities[k]].name = "time"
                  THEN Ok(find_quantity("time"))
                  ELSE Ok(quantities[1])

can_convert_first_only(unit1, unit2) ==
    IF unit1 = None \/ unit2 = None THEN Raise("ValueError", FALSE)
    ELSE LET quantities1 == find_quantities_by_unit(unit1)
             quantities2 == find_quantities_by_unit(unit2)
         IN  IF quantities1.exc # "" THEN Raise(quantities1.exc, FALSE)
             ELSE IF quantities2.exc # "" THEN Raise(quantities2.exc, FALSE)
             ELSE Ok(/\ quantities1.val # <<>>
                     /\ \E j \in 1..Len(quantities2.val) :
                            quantities1.val[1] = quantities2.val[j])

\* UnitManager.can_convert: any(q in quantities2 for q in quantities1)
can_convert(unit1, unit2) ==
    IF unit1 = None \/ unit2 = None THEN Raise("ValueError", FALSE)
    ELSE LET quantities1 == find_quantities_by_unit(unit1)
             quantities2 == find_quantities_by_unit(unit2)
         IN  IF quantities1.exc # "" THEN Raise(quantities1.exc, FALSE)
             ELSE IF quantities2.exc # "" THEN Raise(quantities2.exc, FALSE)
             ELSE Ok(\E i \in 1..Len(quantities1.val) :
                        \E j \in 1..Len(quantities2.val) :
                            quantities1.val[i] = quantities2.val[j])

\* UnitManager.can_convert_by_symbol
can_convert_by_symbol(unit_symbol1, unit_symbol2) ==
    IF unit_symbol1 = NoneStr \/ unit_symbol2 = NoneStr THEN Ok(FALSE)
    ELSE LET unit1 == find_unit(unit_symbol1)
             unit2 == find_unit(unit_symbol2)
         IN  IF unit1 # None /\ unit2 # None THEN can_convert(unit1, unit2)
             ELSE Ok(FALSE)

\* An argument of convert: a str, a Unit object, or None.
Str(s) == [kind |-> "str", str |-> s, unit |-> UnitDefs[1]]
Obj(u) == [kind |-> "Unit", str |-> <<>>, unit |-> u]
NoneArg == [kind |-> "None", str |-> <<>>, unit |-> UnitDefs[1]]

\* isinstance(x, str): x = self.find_unit(x)
Resolved(x) ==
    IF x.kind = "str"
    THEN LET u == find_unit(x.str)
         IN  IF u = None THEN NoneArg ELSE Obj(UnitDefs[u])
    ELSE x

\* UnitManager.convert
convert(from_unit, to_unit, v) ==
    LET from == Resolved(from_unit)
        to == Resolved(to_unit)
    IN  IF from.kind = "None" \/ to.kind = "None" THEN Raise("ValueError", v)
        ELSE LET base == to_base(from.unit, v)
             IN  IF base.exc # "" THEN base ELSE from_base(to.unit, base.val)

\* UnitManager.convert_by_symbol
convert_by_symbol(from_unit_symbol, to_unit_symbol, v) ==
    IF from_unit_symbol = NoneStr \/ to_unit_symbol = NoneStr
    THEN Raise("ValueError", v)
    ELSE LET from_unit == find_unit(from_unit_symbol)
             to_unit == find_unit(to_unit_symbol)
         IN  IF from_unit # None /\ to_unit # None
             THEN convert(Obj(UnitDefs[from_unit]), Obj(UnitDefs[to_unit]), v)
             ELSE Ok(v)

----------------------------------------------------------------------------
(* UnitManager: construction and mutation.                                 *)

IdleSingleton ==
    /\ lock = 0
    /\ instance = None
    /\ pc = [t \in 1..NumThreads |-> "idle"]
    /\ ret = [t \in 1..NumThreads |-> None]
    /\ ctorRuns = 0

IdleConvert ==
    /\ unit = UnitDefs[1]
    /\ value = Rat(0)
    /\ step = "new"
    /\ base_value = Ok(Rat(0))
    /\ result = Ok(Rat(0))

\* UnitManager.__init__: empty fields, then the two loaders.  A missing file
\* leaves the field empty (the empty document, the empty alias file).
Init ==
    /\ \E names \in SeqsUpTo(QNames, MaxQuantities) :
       \E flat \in SeqsUpTo(UnitNames, MaxMembers) :
       \E owner \in [1..Len(flat) -> 1..Len(names)] :
           /\ InOrder(owner)
           /\ quantities_ \in Orders(load_from_json(Document(names, flat, owner)))
    /\ \E lines \in AliasFiles : unit_aliases_ = load_unit_aliases(NoAliases, lines)
    /\ IdleSingleton
    /\ IdleConvert

\* UnitManager.add_quantity; a Quantity built by the caller is never None.
\* On a name already present it raises ValueError and nothing changes.
AddQuantity(quantity) ==
    /\ IF find_quantity(quantity.name) # None
       THEN quantities_' = quantities_
       ELSE /\ Len(quantities_) < MaxQuantities
            /\ quantities_' \in Orders(Append(quantities_, quantity))
    /\ UNCHANGED <<unit_aliases_, singletonVars, convertVars>>

\* UnitManager.find_or_create_quantity
FindOrCreateQuantity(quantity_name) ==
    /\ IF find_quantity(quantity_name) # None
       THEN quantities_' = quantities_
       ELSE /\ Len(quantities_) < MaxQuantities
            /\ quantities_' \in Orders(Append(quantities_, Quantity(quantity_name, <<>>)))
    /\ UNCHANGED <<unit_aliases_, singletonVars, convertVars>>

\* Quantity.add_unit on a quantity the registry holds
AddUnit(i, u, is_base_unit) ==
    /\ i \in 1..Len(quantities_)
    /\ SumLen(quantities_) < MaxMembers
    /\ quantities_' = [quantities_ EXCEPT ![i] = add_unit(@, u, is_base_unit)]
    /\ UNCHANGED <<unit_aliases_, singletonVars, convertVars>>

\* UnitManager.add_unit_alias; None for either string raises ValueError.
AddUnitAlias(unit_symbol_alias, unit_symbol) ==
    /\ IF unit_symbol_alias = NoneStr \/ unit_symbol = NoneStr
       THEN unit_aliases_' = unit_aliases_
       ELSE LET key == Lower(unit_symbol_alias)
            IN  /\ Cardinality(DOMAIN unit_aliases_ \cup {key}) <= MaxAliases
                /\ unit_aliases_' =
                       [k \in DOMAIN unit_aliases_ \cup {key} |->
                           IF k = key THEN unit_symbol ELSE unit_aliases_[k]]
    /\ UNCHANGED <<quantities_, singletonVars, convertVars>>

Next ==
    \/ \E name \in QNames,
          units \in SeqsUpTo(Units, MaxMembers - SumLen(quantities_)) :
           AddQuantity(Quantity(name, units))
    \/ \E name \in QNames : FindOrCreateQuantity(name)
    \/ \E i \in 1..MaxQuantities, u \in Units, is_base_unit \in BOOLEAN :
           AddUnit(i, u, is_base_unit)
    \/ \E alias \in AliasInputs \cup {NoneStr}, symbol \in SymbolInputs \cup {NoneStr} :
           AddUnitAlias(alias, symbol)

\* The registry: construction, then any calls of its mutating operations.
Spec == Init /\ [][Next]_vars

----------------------------------------------------------------------------
(* UnitManager.get_instance, statement by statement, one thread each.      *)

Threads == 1..NumThreads

EmptyRegistry ==
    /\ quantities_ = <<>>
    /\ unit_aliases_ = NoAliases

InitSingleton ==
    /\ EmptyRegistry
    /\ IdleSingleton
    /\ IdleConvert

LockIgnored(t) == TRUE

\* with cls._lock: the lock can be taken when no thread holds it
LockFree(t) == lock = 0

Call(t) ==
    /\ pc[t] = "idle"
    /\ pc' = [pc EXCEPT ![t] = "acquire"]
    /\ UNCHANGED <<lock, instance, ret, ctorRuns, registryVars, convertVars>>

Acquire(t) ==
    /\ pc[t] = "acquire"
    /\ LockFree(t)
    /\ lock' = t
    /\ pc' = [pc EXCEPT ![t] = "test"]
    /\ UNCHANGED <<instance, ret, ctorRuns, registryVars, convertVars>>

\* if cls._instance is None
Test(t) ==
    /\ pc[t] = "test"
    /\ pc' = [pc EXCEPT ![t] = IF instance = None THEN "construct" ELSE "release"]
    /\ UNCHANGED <<lock, instance, ret, ctorRuns, registryVars, convertVars>>

\* cls._instance = cls(): the object built by the n-th run of __init__ is n.
\* __init__ returns: the loaders catch the errors of reading their files.
Construct(t) ==
    /\ pc[t] = "construct"
    /\ ctorRuns' = ctorRuns + 1
    /\ instance' = ctorRuns + 1
    /\ pc' = [pc EXCEPT ![t] = "release"]
    /\ UNCHANGED <<lock, ret, registryVars, convertVars>>

\* leaving the with block
Release(t) ==
    /\ pc[t] = "release"
    /\ lock' = 0
    /\ pc' = [pc EXCEPT ![t] = "return"]
    /\ UNCHANGED <<instance, ret, ctorRuns, registryVars, convertVars>>

\* return cls._instance
Return(t) ==
    /\ pc[t] = "return"
    /\ ret' = [ret EXCEPT ![t] = instance]
    /\ pc' = [pc EXCEPT ![t] = "done"]
    /\ UNCHANGED <<lock, instance, ctorRuns, registryVars, convertVars>>

NextSingleton ==
    \E t \in Threads :
        \/ Call(t)
        \/ Acquire(t)
        \/ Test(t)
        \/ Construct(t)
        \/ Release(t)
        \/ Return(t)

SpecSingleton == InitSingleton /\ [][NextSingleton]_vars

----------------------------------------------------------------------------
(* Unit.to_base, Unit.from_base and convert on a Unit of any coefficients.  *)

Coefs == {Rat(n) : n \in -MaxCoef..MaxCoef}
Values == {Rat(n) : n \in -MaxValue..MaxValue}

InitConvert ==
    /\ EmptyRegistry
    /\ IdleSingleton
    /\ \E a \in Coefs, b \in Coefs, c \in Coefs, d \in Coefs :
           unit = MkUnit("unit", <<"u">>, a, b, c, d, <<"u">>)
    /\ value \in Values
    /\ step = "new"
    /\ base_value = Ok(Rat(0))
    /\ result = Ok(Rat(0))

ToBase ==
    /\ step = "new"
    /\ base_value' = to_base(unit, value)
    /\ step' = "to_base"
    /\ UNCHANGED <<unit, value, result, registryVars, singletonVars>>

\* from_base of the value to_base returned
FromBase ==
    /\ step = "to_base"
    /\ base_value.exc = ""
    /\ result' = from_base(unit, base_value.val)
    /\ step' = "from_base"
    /\ UNCHANGED <<unit, value, base_value, registryVars, singletonVars>>

\* unit_manager.convert(unit, unit, value)
Convert ==
    /\ step = "new"
    /\ result' = convert(Obj(unit), Obj(unit), value)
    /\ step' = "convert"
    /\ UNCHANGED <<unit, value, base_value, registryVars, singletonVars>>

NextConvert == ToBase \/ FromBase \/ Convert

SpecConvert == InitConvert /\ [][NextConvert]_vars

----------------------------------------------------------------------------
(* Properties.                                                             *)

C2_UniqueNames ==
    \A i, j \in 1..Len(quantities_) :
        i # j => quantities_[i].name # quantities_[j].name

Determinant(u) == RSub(RMul(u.a, u.d), RMul(u.b, u.c))
Denominator(u, x) == RAdd(RMul(u.c, x), u.d)
Invertible(u, x) == Determinant(u) # Rat(0) /\ Denominator(u, x) # Rat(0)

\* C3: when a*d - b*c # 0 and c*x + d # 0, from_base(to_base(x)) returns x,
\* and so does convert(u, u, x).
C3_RoundTrip ==
    /\ step = "from_base" /\ Invertible(unit, value) => result = Ok(value)
    /\ step = "convert" /\ Invertible(unit, value) => result = Ok(value)

\* A round trip through a transform that is neither linear nor affine.
C3_ReciprocalRoundTrip ==
    /\ step = "from_base"
    /\ Invertible(unit, value)
    /\ unit.c # Rat(0) /\ unit.b # Rat(0) /\ unit.a # Rat(0) /\ value # Rat(0)
    /\ result = Ok(value)

\* C4: once add_unit_alias(alias, symbol) has registered an alias,
\* find_unit(alias) and find_unit(symbol) return the identical unit, or both
\* None.
C4_AliasTransparency ==
    [][\A alias \in AliasInputs, symbol \in SymbolInputs :
          AddUnitAlias(alias, symbol)
              => find_unit(alias)' = find_unit(symbol)']_vars

\* Two inputs differ only in letter case or in leading/trailing whitespace.
SameFolded(s1, s2) ==
    /\ s1 # NoneStr /\ s2 # NoneStr
    /\ Strip(Lower(s1)) = Strip(Lower(s2))

IsSymbol(s) ==
    LET members == Members
    IN  \E i \in 1..Len(members) : UnitDefs[members[i]].symbol = s

\* C5 as stated: inputs that differ only in letter case or in
\* leading/trailing whitespace resolve to the same unit.
C5_CaseAndSpaceBlind ==
    \A i, j \in 1..Len(LookupList) :
        i < j /\ SameFolded(LookupList[i], LookupList[j])
            => find_unit(LookupList[i]) = find_unit(LookupList[j])

\* C5 as amended: inputs that differ only in letter case or in
\* leading/trailing whitespace resolve to the same unit when their common
\* trimmed lower-case form is a key of the alias table, or when neither of
\* them is exactly the symbol of a unit of the registry.
C5_FoldedLookup ==
    \A i, j \in 1..Len(LookupList) :
        LET s1 == LookupList[i]
            s2 == LookupList[j]
        IN  /\ i < j
            /\ SameFolded(s1, s2)
            /\ \/ Strip(Lower(s1)) \in DOMAIN unit_aliases_
               \/ ~IsSymbol(s1) /\ ~IsSymbol(s2)
            => find_unit(s1) = find_unit(s2)

\* Two different spellings, neither an exact symbol, resolve to one unit.
C5_FoldedHit ==
    \E s1, s2 \in LookupInputs :
        /\ s1 # s2 /\ SameFolded(s1, s2)
        /\ ~IsSymbol(s1) /\ ~IsSymbol(s2)
        /\ Strip(Lower(s1)) \notin DOMAIN unit_aliases_
        /\ find_unit(s1) # None
        /\ find_unit(s1) = find_unit(s2)

Containing(u) == {i \in 1..Len(quantities_) : InUnits(u, quantities_[i].units)}

\* C6: can_convert(u1, u2) returns true exactly when some quantity has both
\* u1 and u2 among its members.
C6_SharedQuantity ==
    \A u1, u2 \in Units :
        can_convert(u1, u2) = Ok(Containing(u1) \cap Containing(u2) # {})

\* C7: find_quantities_by_unit(u) returns the quantities that contain u, each
\* once, followed by the quantity named "dimensionless" when one of them also
\* contains the unit "Euc" resolves to, and nothing else.
C7_ContainingQuantities ==
    \A u \in Units :
        LET found == find_quantities_by_unit(u)
            n == Cardinality(Containing(u))
            euclid_unit == find_unit(Euc)
            marked == /\ euclid_unit # None
                      /\ \E i \in Containing(u) :
                             InUnits(euclid_unit, quantities_[i].units)
        IN  /\ found.exc = ""
            /\ Len(found.val) = IF marked THEN n + 1 ELSE n
            /\ {found.val[k] : k \in 1..n} = Containing(u)
            /\ marked => /\ found.val[n + 1] # None
                         /\ quantities_[found.val[n + 1]].name = "dimensionless"

\* C8: find_quantity_by_unit(u) does not raise; it returns None when
\* find_quantities_by_unit(u) is empty, its only element when it has one, the
\* quantity named "time" when it has two or more and one is named "time", and
\* its first element otherwise.
C8_Disambiguation ==
    \A u \in Units :
        LET found == find_quantities_by_unit(u)
            chosen == find_quantity_by_unit(u)
            quantities == found.val
            n == Len(quantities)
            timed == \E k \in 1..n :
                         quantities[k] # None /\ quantities_[quantities[k]].name = "time"
        IN  /\ found.exc = ""
            /\ chosen.exc = ""
            /\ n = 0 => chosen.val = None
            /\ n = 1 => chosen.val = quantities[1]
            /\ n >= 2 /\ timed =>
                   chosen.val # None /\ quantities_[chosen.val].name = "time"
            /\ n >= 2 /\ ~timed => chosen.val = quantities[1]

Amount == Rat(55)

\* The other symbol of a two-symbol wrapper: None, or one that resolves in
\* the registries that hold "s" or "S" and does not in the others.
OtherInputs == {NoneStr, <<"s">>}

\* An input no unit is found for; None is one.
Unresolved(s) == s = NoneStr \/ find_unit(s) = None

\* C9 as stated: with a symbol that cannot be resolved, None included, the
\* wrappers do not raise: empty list, empty list, false, the value itself.
C9_Degrade ==
    \A s \in LookupInputs :
        Unresolved(s) =>
            /\ find_convertible_units_by_symbol(s) = Ok({})
            /\ find_quantities_by_symbol(s) = Ok(<<>>)
            /\ \A other \in OtherInputs :
                   /\ can_convert_by_symbol(s, other) = Ok(FALSE)
                   /\ can_convert_by_symbol(other, s) = Ok(FALSE)
                   /\ convert_by_symbol(s, other, Amount) = Ok(Amount)
                   /\ convert_by_symbol(other, s, Amount) = Ok(Amount)

\* C9 as amended: the same, except that convert_by_symbol raises ValueError
\* when either symbol is None, and returns the value itself only when both
\* are strings and one of them cannot be resolved.
C9_DegradeUnlessNone ==
    \A s \in LookupInputs :
        Unresolved(s) =>
            /\ find_convertible_units_by_symbol(s) = Ok({})
            /\ find_quantities_by_symbol(s) = Ok(<<>>)
            /\ \A other \in OtherInputs :
                   LET expected == IF s = NoneStr \/ other = NoneStr
                                   THEN Raise("ValueError", Amount) ELSE Ok(Amount)
                   IN  /\ can_convert_by_symbol(s, other) = Ok(FALSE)
                       /\ can_convert_by_symbol(other, s) = Ok(FALSE)
                       /\ convert_by_symbol(s, other, Amount) = expected
                       /\ convert_by_symbol(other, s, Amount) = expected

\* One symbol resolves, the other is a string no unit is found for, and
\* convert_by_symbol hands the value back.
C9_PassThrough ==
    \E s, other \in LookupInputs :
        /\ s # NoneStr /\ find_unit(s) = None
        /\ other # NoneStr /\ find_unit(other) # None
        /\ convert_by_symbol(other, s, Amount) = Ok(Amount)
        /\ can_convert_by_symbol(other, s) = Ok(FALSE)
        /\ find_quantities_by_symbol(s) = Ok(<<>>)

\* C10: can_convert(u1, u2) and can_convert(u2, u1) have the same outcome.
C10_Symmetric ==
    \A u1, u2 \in Units : u1 < u2 => can_convert(u1, u2) = can_convert(u2, u1)

\* Two different units are convertible, through lists of different lengths.
C10_ConvertiblePair ==
    \E u1, u2 \in Units :
        /\ u1 # u2
        /\ can_convert(u1, u2) = Ok(TRUE)
        /\ Len(find_quantities_by_unit(u1).val) # Len(find_quantities_by_unit(u2).val)

====
